---- MODULE Spec2Model ----
(***************************************************************************)
(* Starlark attribute surface of the Python resource wrappers              *)
(* (pyoxidizer/src/starlark/python_resource.rs): the resource location     *)
(* codec, the collection-context capability trait and its attribute        *)
(* dispatch, the four wrapper types and python_resource_to_value.          *)
(*                                                                         *)
(* Strings are sequences of one-character strings, so that starts_with,    *)
(* split_at and format! are computed rather than assumed.                  *)
(***************************************************************************)
EXTENDS Integers, Sequences, FiniteSets, TLC

VARIABLES wrapper, last, codec

vars == <<wrapper, last, codec>>

(***************************************************************************)
(* Bounds                                                                  *)
(***************************************************************************)

\* Longest path prefix a wrapper's location or a written value carries.
MaxPrefixLen == 1

\* Longest tail appended to the literals the codec is exercised on.
CodecMaxLen == 2

(***************************************************************************)
(* Strings                                                                 *)
(***************************************************************************)

RECURSIVE SeqsUpTo(_, _)
SeqsUpTo(chars, n) ==
    IF n = 0 THEN {<<>>}
    ELSE LET shorter == SeqsUpTo(chars, n - 1)
         IN  shorter \cup {Append(s, c) : s \in shorter, c \in chars}

DefaultStr == <<"d", "e", "f", "a", "u", "l", "t">>

InMemoryStr == <<"i", "n", "-", "m", "e", "m", "o", "r", "y">>

FilesystemRelativePrefix ==
    <<"f", "i", "l", "e", "s", "y", "s", "t", "e", "m", "-",
      "r", "e", "l", "a", "t", "i", "v", "e", ":">>

StartsWith(s, p) == Len(s) >= Len(p) /\ SubSeq(s, 1, Len(p)) = p

\* s.split_at(n).1
SplitAtTail(s, n) == SubSeq(s, n + 1, Len(s))

(***************************************************************************)
(* Starlark values                                                         *)
(***************************************************************************)

NoneValue == [type |-> "NoneType", b |-> FALSE, i |-> 0, s |-> <<>>]

UnitValue == [type |-> "unit", b |-> FALSE, i |-> 0, s |-> <<>>]

BoolValue(x) == [type |-> "bool", b |-> x, i |-> 0, s |-> <<>>]

IntValue(n) == [type |-> "int", b |-> FALSE, i |-> n, s |-> <<>>]

StringValue(str) == [type |-> "string", b |-> FALSE, i |-> 0, s |-> str]

\* Value::to_bool: None is false, a bool is itself, an int is true when
\* non-zero, a string is true when non-empty.
ToBool(v) ==
    CASE v.type = "NoneType" -> FALSE
      [] v.type = "bool"     -> v.b
      [] v.type = "int"      -> v.i # 0
      [] v.type = "string"   -> v.s # <<>>
      [] OTHER               -> FALSE

(***************************************************************************)
(* Errors and results                                                      *)
(***************************************************************************)

NoError ==
    [kind |-> "none", op |-> "", attribute |-> "", left |-> "", code |-> "",
     message |-> "", label |-> "", subject |-> <<>>, subject_type |-> ""]

\* ValueError::OperationNotSupported { op: <op>(attribute), left, right: None }
OperationNotSupported(op, attribute, left) ==
    [NoError EXCEPT !.kind = "OperationNotSupported", !.op = op,
                    !.attribute = attribute, !.left = left]

\* ValueError::from(RuntimeError { code, message, label }); subject and
\* subject_type are what format! interpolates into the message.
RuntimeError(code, message, label, subject, subject_type) ==
    [NoError EXCEPT !.kind = "RuntimeError", !.code = code, !.message = message,
                    !.label = label, !.subject = subject,
                    !.subject_type = subject_type]

Panic(message, attribute) ==
    [NoError EXCEPT !.kind = "panic", !.message = message, !.attribute = attribute]

Ok(v) == [ok |-> TRUE, value |-> v, error |-> NoError]

Err(e) == [ok |-> FALSE, value |-> NoneValue, error |-> e]

(***************************************************************************)
(* Resource locations                                                      *)
(***************************************************************************)

InMemory == [tag |-> "InMemory", prefix |-> <<>>]

RelativePath(p) == [tag |-> "RelativePath", prefix |-> p]

\* Option::None in an Option<ConcreteResourceLocation>
NoLocation == [tag |-> "None", prefix |-> <<>>]

IsConcrete(loc) == loc.tag \in {"InMemory", "RelativePath"}

OptionalResourceLocation(inner) == [inner |-> inner]

\* String::from(ConcreteResourceLocation)
ConcreteLocationToString(loc) ==
    IF loc.tag = "InMemory" THEN InMemoryStr
    ELSE FilesystemRelativePrefix \o loc.prefix

EncodeNoColon(location) ==
    CASE location.inner.tag = "InMemory" -> StringValue(InMemoryStr)
      [] location.inner.tag = "RelativePath" ->
            StringValue(SubSeq(FilesystemRelativePrefix, 1,
                               Len(FilesystemRelativePrefix) - 1)
                        \o location.inner.prefix)
      [] OTHER -> NoneValue

\* impl From<&OptionalResourceLocation> for Value
Encode(location) ==
    CASE location.inner.tag = "InMemory" -> StringValue(InMemoryStr)
      [] location.inner.tag = "RelativePath" ->
            StringValue(FilesystemRelativePrefix \o location.inner.prefix)
      [] OTHER -> NoneValue

LocationOk(loc) ==
    [ok |-> TRUE, location |-> OptionalResourceLocation(loc), error |-> NoError]

LocationErr(e) ==
    [ok |-> FALSE, location |-> OptionalResourceLocation(NoLocation), error |-> e]

TryFromStrIgnoreCaseOfDefault(s) ==
    IF s = DefaultStr \/ s = <<"D">> \o Tail(DefaultStr) THEN LocationOk(NoLocation)
    ELSE IF s = InMemoryStr THEN LocationOk(InMemory)
    ELSE IF StartsWith(s, FilesystemRelativePrefix)
         THEN LocationOk(RelativePath(SplitAtTail(s, Len(FilesystemRelativePrefix))))
    ELSE LocationErr(RuntimeError("INCORRECT_PARAMETER_TYPE",
             "unable to convert value <s> to a resource location",
             "expected default, in-memory, or filesystem-relative:_; got <s>",
             s, ""))

\* impl TryFrom<&str> for OptionalResourceLocation
TryFromStr(s) ==
    IF s = DefaultStr THEN LocationOk(NoLocation)
    ELSE IF s = InMemoryStr THEN LocationOk(InMemory)
    ELSE IF StartsWith(s, FilesystemRelativePrefix)
         THEN LocationOk(RelativePath(SplitAtTail(s, Len(FilesystemRelativePrefix))))
    ELSE LocationErr(RuntimeError("INCORRECT_PARAMETER_TYPE",
             "unable to convert value <s> to a resource location",
             "expected default, in-memory, or filesystem-relative:_; got <s>",
             s, ""))

\* impl TryFrom<&Value> for OptionalResourceLocation
TryFromValue(value) ==
    CASE value.type = "NoneType" -> LocationOk(NoLocation)
      [] value.type = "string"   -> TryFromStr(value.s)
      [] OTHER -> LocationErr(RuntimeError("INCORRECT_PARAMETER_TYPE",
                      "unable to convert value <t> to resource location",
                      "resource location conversion", <<>>, value.type))

(***************************************************************************)
(* Collection context, resource records, packaging policy                  *)
(***************************************************************************)

\* PythonResourceAddCollectionContext, as its fields are used here.
\* location is a ConcreteResourceLocation; location_fallback is an
\* Option<ConcreteResourceLocation>, NoLocation standing for Option::None.
Context(include, location, location_fallback, store_source, zero, one, two) ==
    [include |-> include, location |-> location,
     location_fallback |-> location_fallback, store_source |-> store_source,
     optimize_level_zero |-> zero, optimize_level_one |-> one,
     optimize_level_two |-> two]

BlankContext == Context(FALSE, InMemory, NoLocation, FALSE, FALSE, FALSE, FALSE)

\* Option<PythonResourceAddCollectionContext>
NoneContext == [some |-> FALSE, context |-> BlankContext]

SomeContext(c) == [some |-> TRUE, context |-> c]

Str_foo == <<"f", "o", "o">>

Str_bar == <<"b", "a", "r">>

Str_import_bar == <<"i", "m", "p", "o", "r", "t", " ", "b", "a", "r">>

\* The native records. source_state is what DataLocation::resolve and
\* String::from_utf8 make of the module's source when it is read.
ModuleSourceRecords ==
    {[name |-> Str_foo, package |-> <<>>, is_package |-> FALSE,
      source |-> Str_import_bar, source_state |-> "ok"]}

PackageResourceRecords ==
    {[name |-> Str_bar, package |-> Str_foo, is_package |-> FALSE,
      source |-> <<>>, source_state |-> "none"]}

PackageDistributionResourceRecords ==
    {[name |-> Str_foo, package |-> Str_bar, is_package |-> FALSE,
      source |-> <<>>, source_state |-> "none"]}

ExtensionModuleRecords ==
    {[name |-> Str_foo, package |-> <<>>, is_package |-> FALSE,
      source |-> <<>>, source_state |-> "none"]}

\* PythonResource: the variant and the record it carries.
Resources ==
    {[variant |-> "ModuleSource", record |-> r] : r \in ModuleSourceRecords}
    \cup {[variant |-> "PackageResource", record |-> r] : r \in PackageResourceRecords}
    \cup {[variant |-> "PackageDistributionResource", record |-> r] :
            r \in PackageDistributionResourceRecords}
    \cup {[variant |-> "ExtensionModule", record |-> r] : r \in ExtensionModuleRecords}
    \cup {[variant |-> "ModuleBytecode", record |-> r] : r \in ExtensionModuleRecords}

Prefixes == SeqsUpTo({"l"}, MaxPrefixLen)

Locations == {InMemory} \cup {RelativePath(p) : p \in Prefixes}

\* PythonPackagingPolicy, as far as it decides a derived context.
NoPolicy ==
    [id |-> "none", include |-> FALSE, resources_location |-> InMemory,
     resources_location_fallback |-> NoLocation, include_sources |-> FALSE,
     bytecode_optimize_level_zero |-> FALSE, bytecode_optimize_level_one |-> FALSE,
     bytecode_optimize_level_two |-> FALSE]

Policies ==
    {[NoPolicy EXCEPT !.id = "in-memory", !.include = TRUE,
                      !.include_sources = TRUE,
                      !.bytecode_optimize_level_zero = TRUE],
     [NoPolicy EXCEPT !.id = "filesystem", !.include = TRUE,
                      !.resources_location = RelativePath(<<>>),
                      !.resources_location_fallback = InMemory,
                      !.bytecode_optimize_level_one = TRUE],
     [NoPolicy EXCEPT !.id = "exclude",
                      !.resources_location_fallback = RelativePath(<<>>),
                      !.include_sources = TRUE,
                      !.bytecode_optimize_level_two = TRUE]}

\* PythonPackagingPolicy::derive_collection_add_context
DeriveCollectionAddContext(resource, policy) ==
    Context(policy.include, policy.resources_location,
            policy.resources_location_fallback,
            resource.variant = "ModuleSource" /\ policy.include_sources,
            policy.bytecode_optimize_level_zero,
            policy.bytecode_optimize_level_one,
            policy.bytecode_optimize_level_two)

(***************************************************************************)
(* Wrappers                                                                *)
(***************************************************************************)

TYPE_SourceModule == "PythonSourceModule"

TYPE_PackageResource == "PythonPackageResource"

TYPE_PackageDistributionResource == "PythonPackageDistributionResource"

TYPE_ExtensionModule == "PythonExtensionModule"

\* The wrapper types that implement ResourceCollectionContext.
ContextKinds ==
    {TYPE_SourceModule, TYPE_PackageResource, TYPE_PackageDistributionResource}

\* PythonSourceModuleValue::new, PythonPackageResourceValue::new,
\* PythonPackageDistributionResourceValue::new
New(kind, record) == [kind |-> kind, inner |-> record, add_context |-> NoneContext]

\* PythonExtensionModuleValue { inner }: the struct has no add_context
\* field, which the wrapper record shows as a context that is never there.
NewExtensionModule(record) ==
    [kind |-> TYPE_ExtensionModule, inner |-> record, add_context |-> NoneContext]

\* as_python_resource
AsPythonResource(w) ==
    [variant |-> CASE w.kind = TYPE_SourceModule -> "ModuleSource"
                   [] w.kind = TYPE_PackageResource -> "PackageResource"
                   [] w.kind = TYPE_PackageDistributionResource ->
                        "PackageDistributionResource"
                   [] OTHER -> "ExtensionModule",
     record |-> w.inner]

ApplyPolicyKeepingContext(w, policy) ==
    IF w.add_context.some THEN w
    ELSE [w EXCEPT !.add_context =
            SomeContext(DeriveCollectionAddContext(AsPythonResource(w), policy))]

\* ResourceCollectionContext::apply_packaging_policy
ApplyPolicy(w, policy) ==
    [w EXCEPT !.add_context =
        SomeContext(DeriveCollectionAddContext(AsPythonResource(w), policy))]

\* ResourceCollectionContext::add_collection_context_attrs
AddCollectionContextAttrs ==
    {"add_include", "add_location", "add_location_fallback", "add_source",
     "add_bytecode_optimization_level_zero",
     "add_bytecode_optimization_level_one",
     "add_bytecode_optimization_level_two"}

(***************************************************************************)
(* ResourceCollectionContext: attribute dispatch                           *)
(***************************************************************************)

\* get_attr_add_collection_context
GetAttrAddCollectionContext(w, attribute) ==
    IF attribute \notin AddCollectionContextAttrs
    THEN Err(Panic("get_attr_add_collection_context called when it shouldn't have been",
                   attribute))
    ELSE IF w.add_context.some
    THEN LET context == w.add_context.context
         IN  Ok(CASE attribute = "add_bytecode_optimization_level_zero" ->
                        BoolValue(context.optimize_level_zero)
                  [] attribute = "add_bytecode_optimization_level_one" ->
                        BoolValue(context.optimize_level_one)
                  [] attribute = "add_bytecode_optimization_level_two" ->
                        BoolValue(context.optimize_level_two)
                  [] attribute = "add_include" -> BoolValue(context.include)
                  [] attribute = "add_location" ->
                        StringValue(ConcreteLocationToString(context.location))
                  [] attribute = "add_location_fallback" ->
                        IF context.location_fallback.tag # "None"
                        THEN StringValue(ConcreteLocationToString(
                                             context.location_fallback))
                        ELSE NoneValue
                  [] attribute = "add_source" -> BoolValue(context.store_source))
    ELSE Ok(NoneValue)

\* The result of one arm of set_attr_add_collection_context.
Written(context) == [context |-> context, result |-> Ok(UnitValue)]

Rejected(context, e) == [context |-> context, result |-> Err(e)]

\* "add_bytecode_optimization_level_zero" arm
SetOptimizeLevelZero(context, value) ==
    Written([context EXCEPT !.optimize_level_zero = ToBool(value)])

SetOptimizeLevelOneAndTwo(context, value) ==
    Written([context EXCEPT !.optimize_level_one = ToBool(value),
                            !.optimize_level_two = ToBool(value)])

\* "add_bytecode_optimization_level_one" arm
SetOptimizeLevelOne(context, value) ==
    Written([context EXCEPT !.optimize_level_one = ToBool(value)])

\* "add_bytecode_optimization_level_two" arm
SetOptimizeLevelTwo(context, value) ==
    Written([context EXCEPT !.optimize_level_two = ToBool(value)])

\* "add_include" arm
SetInclude(context, value) ==
    Written([context EXCEPT !.include = ToBool(value)])

SetStoreSourceIntoInclude(context, value) ==
    Written([context EXCEPT !.include = ToBool(value)])

\* "add_source" arm
SetStoreSource(context, value) ==
    Written([context EXCEPT !.store_source = ToBool(value)])

SetLocationStoringDefault(context, attribute, value) ==
    LET location == TryFromValue(value)
    IN  IF ~location.ok THEN Rejected(context, location.error)
        ELSE Written([context EXCEPT !.location = location.location.inner])

SetLocationResettingOnDefault(context, attribute, value) ==
    LET location == TryFromValue(value)
    IN  IF ~location.ok THEN Rejected(context, location.error)
        ELSE IF location.location.inner.tag # "None"
        THEN Written([context EXCEPT !.location = location.location.inner])
        ELSE Rejected([context EXCEPT !.location = InMemory],
                      OperationNotSupported("SetAttr", attribute, "set_attr"))

\* "add_location" arm
SetLocation(context, attribute, value) ==
    LET location == TryFromValue(value)
    IN  IF ~location.ok THEN Rejected(context, location.error)
        ELSE IF location.location.inner.tag # "None"
        THEN Written([context EXCEPT !.location = location.location.inner])
        ELSE Rejected(context,
                      OperationNotSupported("SetAttr", attribute, "set_attr"))

SetLocationFallbackKeepingOnDefault(context, value) ==
    LET location == TryFromValue(value)
    IN  IF ~location.ok THEN Rejected(context, location.error)
        ELSE IF location.location.inner.tag # "None"
        THEN Written([context EXCEPT !.location_fallback = location.location.inner])
        ELSE Written(context)

\* "add_location_fallback" arm
SetLocationFallback(context, value) ==
    LET location == TryFromValue(value)
    IN  IF ~location.ok THEN Rejected(context, location.error)
        ELSE IF location.location.inner.tag # "None"
        THEN Written([context EXCEPT !.location_fallback = location.location.inner])
        ELSE Written([context EXCEPT !.location_fallback = NoLocation])

\* Outcome of a set_attr: the wrapper afterwards and the Result returned.
Outcome(w, result) == [wrapper |-> w, result |-> result]

MissingContextError ==
    RuntimeError("PYOXIDIZER",
        "attempting to set a collection context attribute on an object without a context",
        "setattr()", <<>>, "")

SetAttrCreatingContext(w, attribute, value) ==
    IF w.add_context.some
    THEN Outcome(w, Ok(UnitValue))
    ELSE Outcome([w EXCEPT !.add_context = SomeContext(BlankContext)],
                 Err(MissingContextError))

\* set_attr_add_collection_context
SetAttrAddCollectionContext(w, attribute, value) ==
    IF w.add_context.some
    THEN LET context == w.add_context.context
             arm ==
               CASE attribute = "add_bytecode_optimization_level_zero" ->
                        SetOptimizeLevelZero(context, value)
                 [] attribute = "add_bytecode_optimization_level_one" ->
                        SetOptimizeLevelOne(context, value)
                 [] attribute = "add_bytecode_optimization_level_two" ->
                        SetOptimizeLevelTwo(context, value)
                 [] attribute = "add_include" -> SetInclude(context, value)
                 [] attribute = "add_location" ->
                        SetLocation(context, attribute, value)
                 [] attribute = "add_location_fallback" ->
                        SetLocationFallback(context, value)
                 [] attribute = "add_source" -> SetStoreSource(context, value)
                 [] OTHER ->
                        Rejected(context,
                            Panic("set_attr_add_collection_context called when it shouldn't have been",
                                  attribute))
         IN  Outcome([w EXCEPT !.add_context = SomeContext(arm.context)], arm.result)
    ELSE Outcome(w, Err(MissingContextError))

(***************************************************************************)
(* TypedValue implementations                                              *)
(***************************************************************************)

SourceModuleGetAttrNamingWrongType(w, attribute) ==
    IF attribute \in AddCollectionContextAttrs
    THEN GetAttrAddCollectionContext(w, attribute)
    ELSE Err(OperationNotSupported("GetAttr", attribute, TYPE_PackageResource))

\* PythonSourceModuleValue::get_attr
SourceModuleGetAttr(w, attribute) ==
    CASE attribute = "name" -> Ok(StringValue(w.inner.name))
      [] attribute = "source" ->
            CASE w.inner.source_state = "unresolvable" ->
                    Err(RuntimeError("PYOXIDIZER_SOURCE_ERROR",
                                     "error resolving source code: <e>", "source",
                                     <<>>, ""))
              [] w.inner.source_state = "not_utf8" ->
                    Err(RuntimeError("PYOXIDIZER_SOURCE_ERROR",
                                     "error converting source code to UTF-8",
                                     "source", <<>>, ""))
              [] OTHER -> Ok(StringValue(w.inner.source))
      [] attribute = "is_package" -> Ok(BoolValue(w.inner.is_package))
      [] OTHER ->
            IF attribute \in AddCollectionContextAttrs
            THEN GetAttrAddCollectionContext(w, attribute)
            ELSE Err(OperationNotSupported("GetAttr", attribute, "PythonSourceModule"))

SourceModuleHasAttrWhenContext(w, attribute) ==
    attribute \in {"name", "source", "is_package"}
    \/ (w.add_context.some /\ attribute \in AddCollectionContextAttrs)

\* PythonSourceModuleValue::has_attr
SourceModuleHasAttr(w, attribute) ==
    attribute \in {"name", "source", "is_package"}
    \/ attribute \in AddCollectionContextAttrs

\* PythonSourceModuleValue::set_attr
SourceModuleSetAttr(w, attribute, value) ==
    IF attribute \in AddCollectionContextAttrs
    THEN SetAttrAddCollectionContext(w, attribute, value)
    ELSE Outcome(w, Err(OperationNotSupported("SetAttr", attribute, TYPE_SourceModule)))

\* PythonPackageResourceValue::get_attr
PackageResourceGetAttr(w, attribute) ==
    CASE attribute = "package" -> Ok(StringValue(w.inner.package))
      [] attribute = "name" -> Ok(StringValue(w.inner.name))
      [] OTHER ->
            Err(OperationNotSupported("GetAttr", attribute, "PythonPackageResource"))

\* PythonPackageResourceValue::has_attr
PackageResourceHasAttr(w, attribute) == attribute \in {"package", "name"}

\* PythonPackageDistributionResourceValue::get_attr
PackageDistributionResourceGetAttr(w, attribute) ==
    CASE attribute = "package" -> Ok(StringValue(w.inner.package))
      [] attribute = "name" -> Ok(StringValue(w.inner.name))
      [] OTHER ->
            Err(OperationNotSupported("GetAttr", attribute,
                                      "PythonPackageDistributionResource"))

\* PythonPackageDistributionResourceValue::has_attr
PackageDistributionResourceHasAttr(w, attribute) == attribute \in {"package", "name"}

\* PythonExtensionModuleValue::get_attr
ExtensionModuleGetAttr(w, attribute) ==
    CASE attribute = "name" -> Ok(StringValue(w.inner.name))
      [] OTHER ->
            Err(OperationNotSupported("GetAttr", attribute, "PythonExtensionModule"))

\* PythonExtensionModuleValue::has_attr
ExtensionModuleHasAttr(w, attribute) == attribute = "name"

UnimplementedSetAttrReachingDispatch(w, attribute, value) ==
    IF w.kind # TYPE_ExtensionModule /\ attribute \in AddCollectionContextAttrs
    THEN SetAttrAddCollectionContext(w, attribute, value)
    ELSE Outcome(w, Err(OperationNotSupported("SetAttr", attribute, w.kind)))

\* The three impl TypedValue blocks that define no set_attr: the trait's
\* own set_attr answers, an OperationNotSupported naming Self::TYPE.
UnimplementedSetAttr(w, attribute, value) ==
    Outcome(w, Err(OperationNotSupported("SetAttr", attribute, w.kind)))

\* get_attr of the wrapper, by its type
WrapperGetAttr(w, attribute) ==
    CASE w.kind = TYPE_SourceModule -> SourceModuleGetAttr(w, attribute)
      [] w.kind = TYPE_PackageResource -> PackageResourceGetAttr(w, attribute)
      [] w.kind = TYPE_PackageDistributionResource ->
            PackageDistributionResourceGetAttr(w, attribute)
      [] OTHER -> ExtensionModuleGetAttr(w, attribute)

\* has_attr of the wrapper, by its type
WrapperHasAttr(w, attribute) ==
    CASE w.kind = TYPE_SourceModule -> SourceModuleHasAttr(w, attribute)
      [] w.kind = TYPE_PackageResource -> PackageResourceHasAttr(w, attribute)
      [] w.kind = TYPE_PackageDistributionResource ->
            PackageDistributionResourceHasAttr(w, attribute)
      [] OTHER -> ExtensionModuleHasAttr(w, attribute)

\* set_attr of the wrapper, by its type
WrapperSetAttr(w, attribute, value) ==
    IF w.kind = TYPE_SourceModule THEN SourceModuleSetAttr(w, attribute, value)
    ELSE UnimplementedSetAttr(w, attribute, value)

\* is_resource_starlark_compatible
IsCompatible(resource) ==
    resource.variant \in {"ModuleSource", "PackageResource",
                          "PackageDistributionResource", "ExtensionModule"}

ResourceToValueSkippingDistributionPolicy(resource, policy) ==
    CASE resource.variant = "ModuleSource" ->
            ApplyPolicy(New(TYPE_SourceModule, resource.record), policy)
      [] resource.variant = "PackageResource" ->
            ApplyPolicy(New(TYPE_PackageResource, resource.record), policy)
      [] resource.variant = "PackageDistributionResource" ->
            New(TYPE_PackageDistributionResource, resource.record)
      [] OTHER -> NewExtensionModule(resource.record)

\* python_resource_to_value, for a compatible resource
ResourceToValue(resource, policy) ==
    CASE resource.variant = "ModuleSource" ->
            ApplyPolicy(New(TYPE_SourceModule, resource.record), policy)
      [] resource.variant = "PackageResource" ->
            ApplyPolicy(New(TYPE_PackageResource, resource.record), policy)
      [] resource.variant = "PackageDistributionResource" ->
            ApplyPolicy(New(TYPE_PackageDistributionResource, resource.record), policy)
      [] OTHER -> NewExtensionModule(resource.record)

(***************************************************************************)
(* Inputs                                                                  *)
(***************************************************************************)

Str_In_memory == <<"I">> \o Tail(InMemoryStr)

\* Strings a configuration script writes: the three accepted shapes, the
\* empty string and a wrongly capitalised literal.
Strings ==
    {<<>>, DefaultStr, InMemoryStr, Str_In_memory}
    \cup {FilesystemRelativePrefix \o p : p \in Prefixes}

Values ==
    {NoneValue, BoolValue(TRUE), BoolValue(FALSE), IntValue(0)}
    \cup {StringValue(s) : s \in Strings}

\* Values written to a name that is no capability attribute: set_attr
\* answers from the name alone.
FewValues == {NoneValue, BoolValue(TRUE)}

\* What DataLocation::resolve and String::from_utf8 can make of a module's
\* source at the time it is read.
SourceStates == {"ok", "unresolvable", "not_utf8"}

\* Attribute names a script may use: the capability attributes, every
\* wrapper's own attributes and one name no wrapper knows.
Attributes ==
    AddCollectionContextAttrs \cup {"name", "source", "is_package", "package", "bogus"}

IntrinsicAttrs(kind) ==
    CASE kind = TYPE_SourceModule -> {"name", "source", "is_package"}
      [] kind = TYPE_PackageResource -> {"package", "name"}
      [] kind = TYPE_PackageDistributionResource -> {"package", "name"}
      [] OTHER -> {"name"}

(***************************************************************************)
(* State machine of one wrapper                                            *)
(***************************************************************************)

\* The operation last performed on the wrapper: its arguments and result.
Last(op, attribute, value, policy, result) ==
    [op |-> op, attribute |-> attribute, value |-> value,
     policy |-> policy, result |-> result]

CodecIdle ==
    [op |-> "idle", location |-> OptionalResourceLocation(NoLocation),
     value |-> NoneValue, result |-> LocationOk(NoLocation)]

Init ==
    /\ wrapper \in
          {New(TYPE_SourceModule, r) : r \in ModuleSourceRecords}
          \cup {New(TYPE_PackageResource, r) : r \in PackageResourceRecords}
          \cup {New(TYPE_PackageDistributionResource, r) :
                  r \in PackageDistributionResourceRecords}
          \cup {NewExtensionModule(r) : r \in ExtensionModuleRecords}
    /\ last = Last("new", "", NoneValue, NoPolicy, Ok(UnitValue))
    /\ codec = CodecIdle

GetAttr(attribute) ==
    /\ \E st \in IF wrapper.kind = TYPE_SourceModule /\ attribute = "source"
                  THEN SourceStates ELSE {wrapper.inner.source_state} :
          last' = Last("get_attr", attribute, NoneValue, NoPolicy,
                       WrapperGetAttr([wrapper EXCEPT !.inner.source_state = st],
                                      attribute))
    /\ UNCHANGED <<wrapper, codec>>

HasAttr(attribute) ==
    /\ last' = Last("has_attr", attribute, NoneValue, NoPolicy,
                    Ok(BoolValue(WrapperHasAttr(wrapper, attribute))))
    /\ UNCHANGED <<wrapper, codec>>

SetAttr(attribute, value) ==
    LET outcome == WrapperSetAttr(wrapper, attribute, value)
    IN  /\ wrapper' = outcome.wrapper
        /\ last' = Last("set_attr", attribute, value, NoPolicy, outcome.result)
        /\ UNCHANGED codec

\* get_attr_add_collection_context called on the trait directly
ReadContextAttr(attribute) ==
    /\ wrapper.kind \in ContextKinds
    /\ last' = Last("get_attr_add_collection_context", attribute, NoneValue,
                    NoPolicy, GetAttrAddCollectionContext(wrapper, attribute))
    /\ UNCHANGED <<wrapper, codec>>

ApplyPackagingPolicy(policy) ==
    /\ wrapper.kind \in ContextKinds
    /\ wrapper' = ApplyPolicy(wrapper, policy)
    /\ last' = Last("apply_packaging_policy", "", NoneValue, policy, Ok(UnitValue))
    /\ UNCHANGED codec

IsResourceStarlarkCompatible(resource) ==
    /\ last' = Last("is_resource_starlark_compatible", "", NoneValue, NoPolicy,
                    Ok(BoolValue(IsCompatible(resource))))
    /\ UNCHANGED <<wrapper, codec>>

PythonResourceToValue(resource, policy) ==
    /\ IF IsCompatible(resource)
       THEN /\ wrapper' = ResourceToValue(resource, policy)
            /\ last' = Last("python_resource_to_value", "", NoneValue, policy,
                            Ok(UnitValue))
       ELSE /\ wrapper' = wrapper
            /\ last' = Last("python_resource_to_value", "", NoneValue, policy,
                            Err(Panic("incompatible PythonResource variant passed", "")))
    /\ UNCHANGED codec

Next ==
    \/ \E a \in Attributes : GetAttr(a)
    \/ \E a \in Attributes : HasAttr(a)
    \/ \E a \in AddCollectionContextAttrs, v \in Values : SetAttr(a, v)
    \/ \E a \in Attributes \ AddCollectionContextAttrs, v \in FewValues : SetAttr(a, v)
    \/ \E a \in Attributes : ReadContextAttr(a)
    \/ \E p \in Policies : ApplyPackagingPolicy(p)
    \/ \E r \in Resources : IsResourceStarlarkCompatible(r)
    \/ \E r \in Resources, p \in Policies : PythonResourceToValue(r, p)

Spec == Init /\ [][Next]_vars

(***************************************************************************)
(* The location codec on its own                                           *)
(***************************************************************************)

CodecChars == {"l", ":", "/"}

CodecTails == SeqsUpTo(CodecChars, CodecMaxLen)

Str_Default == <<"D">> \o Tail(DefaultStr)

Str_Filesystem_relative == <<"F">> \o Tail(FilesystemRelativePrefix)

\* "filesystem-relative", without the colon
Str_filesystem_relative_bare ==
    SubSeq(FilesystemRelativePrefix, 1, Len(FilesystemRelativePrefix) - 1)

CodecLiterals ==
    {<<>>, DefaultStr, InMemoryStr, FilesystemRelativePrefix,
     Str_Default, Str_In_memory, Str_Filesystem_relative,
     Str_filesystem_relative_bare}

CodecStrings == {lit \o tail : lit \in CodecLiterals, tail \in CodecTails}

CodecValues ==
    {NoneValue, BoolValue(TRUE), BoolValue(FALSE), IntValue(0), IntValue(1)}
    \cup {StringValue(s) : s \in CodecStrings}

CodecLocations ==
    {OptionalResourceLocation(NoLocation), OptionalResourceLocation(InMemory)}
    \cup {OptionalResourceLocation(RelativePath(p)) : p \in CodecTails}

CodecInit ==
    /\ wrapper = NewExtensionModule(CHOOSE r \in ExtensionModuleRecords : TRUE)
    /\ last = Last("new", "", NoneValue, NoPolicy, Ok(UnitValue))
    /\ codec = CodecIdle

\* Value::from(&location)
CodecEncode(location) ==
    /\ codec' = [op |-> "encode", location |-> location,
                 value |-> Encode(location), result |-> LocationOk(NoLocation)]
    /\ UNCHANGED <<wrapper, last>>

\* OptionalResourceLocation::try_from(&value)
CodecDecode(value) ==
    /\ codec' = [op |-> "decode", location |-> OptionalResourceLocation(NoLocation),
                 value |-> value, result |-> TryFromValue(value)]
    /\ UNCHANGED <<wrapper, last>>

\* OptionalResourceLocation::try_from of the value just encoded
CodecDecodeEncoded ==
    /\ codec.op = "encode"
    /\ codec' = [codec EXCEPT !.op = "round_trip",
                              !.result = TryFromValue(codec.value)]
    /\ UNCHANGED <<wrapper, last>>

CodecNext ==
    \/ \E x \in CodecLocations : CodecEncode(x)
    \/ \E v \in CodecValues : CodecDecode(v)
    \/ CodecDecodeEncoded

CodecSpec == CodecInit /\ [][CodecNext]_vars

(***************************************************************************)
(* Properties                                                              *)
(***************************************************************************)

HasContext == wrapper.add_context.some

\* The result is a script-visible error (not a panic).
IsError(result) == ~result.ok /\ result.error.kind # "panic"

\* C1: once a wrapper has a context, whatever set_attr calls were made on
\* it (failed ones included), the context's location is InMemory or a
\* RelativePath, never the default, and add_location reads as a string.
C1_LocationAlwaysConcrete ==
    HasContext =>
        /\ IsConcrete(wrapper.add_context.context.location)
        /\ LET r == GetAttrAddCollectionContext(wrapper, "add_location")
           IN  r.ok /\ r.value.type = "string"

C1_Witness ==
    /\ HasContext
    /\ last.op = "set_attr" /\ last.attribute = "add_location"
    /\ last.value = NoneValue /\ ~last.result.ok
    /\ wrapper.add_context.context.location = RelativePath(<<>>)

\* C3: decoding the encoding of InMemory or of RelativePath(p), for any p
\* (the empty prefix included), gives back the same location.
C3_RoundTrip ==
    (codec.op = "round_trip" /\ IsConcrete(codec.location.inner)) =>
        /\ codec.result.ok
        /\ codec.result.location = codec.location

C3_Witness ==
    /\ codec.op = "round_trip"
    /\ codec.location = OptionalResourceLocation(RelativePath(<<>>))
    /\ codec.value = StringValue(FilesystemRelativePrefix)
    /\ codec.result.ok

\* The value has one of the three accepted shapes.
IsDefaultShape(v) == v.type = "NoneType" \/ v = StringValue(DefaultStr)

IsInMemoryShape(v) == v = StringValue(InMemoryStr)

IsRelativeShape(v) ==
    v.type = "string" /\ StartsWith(v.s, FilesystemRelativePrefix)

\* C4: decode is case-sensitive and total over three shapes: null and
\* "default" give the default, "in-memory" gives InMemory, a string that
\* starts with "filesystem-relative:" gives RelativePath of the rest,
\* verbatim; every other string and every other type is a decode error.
C4_DecodeShapes ==
    codec.op = "decode" =>
        LET v == codec.value
            r == codec.result
        IN  /\ IsDefaultShape(v) => (r.ok /\ r.location.inner = NoLocation)
            /\ IsInMemoryShape(v) => (r.ok /\ r.location.inner = InMemory)
            /\ IsRelativeShape(v) =>
                  /\ r.ok
                  /\ r.location.inner.tag = "RelativePath"
                  /\ FilesystemRelativePrefix \o r.location.inner.prefix = v.s
            /\ ~(IsDefaultShape(v) \/ IsInMemoryShape(v) \/ IsRelativeShape(v)) =>
                  (~r.ok /\ r.error.kind = "RuntimeError")

C4_Witness ==
    /\ codec.op = "decode"
    /\ codec.value = StringValue(Str_Default)
    /\ ~codec.result.ok
    /\ codec.result.error.subject = Str_Default

IsSourceModule == wrapper.kind = TYPE_SourceModule

\* C2: on a wrapper with a context, set_attr("add_location", v) with v
\* null or "default" fails, and the context's location is what it was.
C2_DefaultLocationRejected ==
    [][(/\ wrapper.add_context.some
        /\ last'.op = "set_attr"
        /\ last'.attribute = "add_location"
        /\ IsDefaultShape(last'.value))
       => (/\ IsError(last'.result)
           /\ last'.result.error.kind \in {"RuntimeError", "OperationNotSupported"}
           /\ wrapper'.add_context.some
           /\ wrapper'.add_context.context.location =
                 wrapper.add_context.context.location)]_vars

C2_Witness ==
    /\ HasContext /\ IsSourceModule
    /\ last.op = "set_attr" /\ last.attribute = "add_location"
    /\ last.value = StringValue(DefaultStr)
    /\ last.result = Err(OperationNotSupported("SetAttr", "add_location", "set_attr"))
    /\ wrapper.add_context.context.location = RelativePath(<<>>)

BoolAttrs ==
    {"add_include", "add_source", "add_bytecode_optimization_level_zero",
     "add_bytecode_optimization_level_one", "add_bytecode_optimization_level_two"}

\* C6: on a source-module wrapper with a context, a successful
\* set_attr(a, v) shows in get_attr(a): bool(v) for add_include,
\* add_source and the three optimization-level attributes, and v itself
\* for add_location written with a concrete location string.
C6_WriteThenRead ==
    (/\ HasContext /\ IsSourceModule
     /\ last.op = "set_attr" /\ last.result.ok)
    => LET read == WrapperGetAttr(wrapper, last.attribute)
       IN  /\ last.attribute \in BoolAttrs =>
                read = Ok(BoolValue(ToBool(last.value)))
           /\ (/\ last.attribute = "add_location"
               /\ (IsInMemoryShape(last.value) \/ IsRelativeShape(last.value))) =>
                read = Ok(last.value)

C6_Witness ==
    /\ HasContext /\ IsSourceModule
    /\ last.op = "set_attr" /\ last.result.ok
    /\ last.attribute = "add_source"
    /\ last.value = StringValue(<<>>)
    /\ ~wrapper.add_context.context.store_source
    /\ wrapper.add_context.context.include

\* The context field a capability attribute names.
FieldOf(attribute) ==
    CASE attribute = "add_include" -> "include"
      [] attribute = "add_location" -> "location"
      [] attribute = "add_location_fallback" -> "location_fallback"
      [] attribute = "add_source" -> "store_source"
      [] attribute = "add_bytecode_optimization_level_zero" -> "optimize_level_zero"
      [] attribute = "add_bytecode_optimization_level_one" -> "optimize_level_one"
      [] attribute = "add_bytecode_optimization_level_two" -> "optimize_level_two"

\* C7: on a source-module wrapper with a context, a successful write of a
\* capability attribute changes only the context field it names: every
\* other field, and the wrapped record, stay as they were.
C7_WriteFrame ==
    [][(/\ wrapper.add_context.some
        /\ wrapper.kind = TYPE_SourceModule
        /\ last'.op = "set_attr"
        /\ last'.attribute \in AddCollectionContextAttrs
        /\ last'.result.ok)
       => (/\ wrapper'.kind = wrapper.kind
           /\ wrapper'.inner = wrapper.inner
           /\ wrapper'.add_context.some
           /\ \A f \in DOMAIN wrapper.add_context.context \ {FieldOf(last'.attribute)} :
                 wrapper'.add_context.context[f] = wrapper.add_context.context[f])]_vars

C7_Witness ==
    /\ HasContext /\ IsSourceModule
    /\ last.op = "set_attr" /\ last.result.ok
    /\ last.attribute = "add_bytecode_optimization_level_one"
    /\ last.value = BoolValue(TRUE)
    /\ wrapper.add_context.context.optimize_level_one
    /\ ~wrapper.add_context.context.optimize_level_two
    /\ ~wrapper.add_context.context.optimize_level_zero

\* C8 as stated: with the context absent, a write to a capability
\* attribute fails with the missing-context error, the error names the
\* attribute and the wrapper's kind, and the context is still absent.
C8_MissingContextNamesAttribute ==
    (/\ ~HasContext /\ IsSourceModule
     /\ last.op = "set_attr" /\ last.attribute \in AddCollectionContextAttrs)
    => /\ ~last.result.ok
       /\ last.result.error.kind = "RuntimeError"
       /\ last.result.error.code = "PYOXIDIZER"
       /\ last.result.error.attribute = last.attribute
       /\ last.result.error.left = wrapper.kind

\* C8, amended: on a source-module wrapper whose context is absent, a
\* write to any capability attribute, with any value, fails with the one
\* fixed missing-context RuntimeError, which names neither the attribute
\* nor the wrapper's kind, and the context is still absent afterwards.
C8_MissingContext ==
    [][(/\ ~wrapper.add_context.some
        /\ wrapper.kind = TYPE_SourceModule
        /\ last'.op = "set_attr"
        /\ last'.attribute \in AddCollectionContextAttrs)
       => (/\ last'.result = Err(MissingContextError)
           /\ last'.result.error.attribute = ""
           /\ last'.result.error.left = ""
           /\ wrapper' = wrapper)]_vars

C8_Witness ==
    /\ ~HasContext /\ IsSourceModule
    /\ last.op = "set_attr" /\ last.attribute = "add_location"
    /\ last.value = StringValue(InMemoryStr)
    /\ last.result = Err(MissingContextError)

C9_WitnessHasAttr ==
    /\ ~HasContext /\ IsSourceModule
    /\ last.op = "has_attr" /\ last.attribute = "add_location"
    /\ last.result = Ok(BoolValue(TRUE))

\* C10: for every wrapper kind, get_attr and set_attr of a name that is
\* neither a capability attribute nor one of the kind's own attributes
\* fail with OperationNotSupported naming the attribute and the wrapper's
\* type, and the wrapper is unchanged.
C10_UnsupportedAttribute ==
    [][(/\ last'.op \in {"get_attr", "set_attr"}
        /\ last'.attribute \notin
              AddCollectionContextAttrs \cup IntrinsicAttrs(wrapper.kind))
       => (/\ last'.result =
                 Err(OperationNotSupported(
                        IF last'.op = "get_attr" THEN "GetAttr" ELSE "SetAttr",
                        last'.attribute, wrapper.kind))
           /\ wrapper' = wrapper)]_vars

C10_Witness ==
    /\ IsSourceModule /\ HasContext
    /\ last.op = "get_attr" /\ last.attribute = "package"
    /\ last.result = Err(OperationNotSupported("GetAttr", "package",
                                               "PythonSourceModule"))

IsPackageKind ==
    wrapper.kind \in {TYPE_PackageResource, TYPE_PackageDistributionResource}

\* C11: on a package-resource or package-distribution-resource wrapper
\* with a context, get_attr of each of the seven capability attributes
\* returns the context field it names (add_include the include flag,
\* add_location the location's string, and so on), not an
\* unsupported-attribute error.
C11_PackageKindsReadContext ==
    (/\ IsPackageKind /\ HasContext
     /\ last.op = "get_attr"
     /\ last.attribute \in AddCollectionContextAttrs)
    => /\ last.result.ok
       /\ last.result = GetAttrAddCollectionContext(wrapper, last.attribute)

\* C12: on a package-resource or package-distribution-resource wrapper,
\* every set_attr, of any name (the capability attributes included) and
\* any value, fails as an unsupported attribute and leaves the wrapper,
\* its stored context included, as it was.
C12_PackageKindsRejectWrites ==
    [][(/\ wrapper.kind \in {TYPE_PackageResource, TYPE_PackageDistributionResource}
        /\ last'.op = "set_attr")
       => (/\ last'.result =
                 Err(OperationNotSupported("SetAttr", last'.attribute, wrapper.kind))
           /\ wrapper' = wrapper)]_vars

C12_Witness ==
    /\ wrapper.kind = TYPE_PackageDistributionResource
    /\ HasContext
    /\ ~wrapper.add_context.context.include
    /\ last.op = "set_attr" /\ last.attribute = "add_include"
    /\ last.value = BoolValue(TRUE)
    /\ last.result = Err(OperationNotSupported("SetAttr", "add_include",
                                               "PythonPackageDistributionResource"))

\* The calls that act on a wrapper already built.
WrapperOps ==
    {"get_attr", "has_attr", "set_attr", "get_attr_add_collection_context",
     "apply_packaging_policy"}

\* C13: python_resource_to_value returns a source-module, package-resource
\* or package-distribution-resource wrapper with a context, and an
\* extension-module wrapper without one; a context that is there is still
\* there after any read, write or apply_packaging_policy (replaced at
\* most); an extension-module wrapper never has one.
C13_ContextStaysPresent ==
    /\ [](wrapper.kind = TYPE_ExtensionModule => ~wrapper.add_context.some)
    /\ [][(last'.op = "python_resource_to_value" /\ last'.result.ok)
          => (wrapper'.add_context.some <=> wrapper'.kind \in ContextKinds)]_vars
    /\ [][(wrapper.add_context.some /\ last'.op \in WrapperOps)
          => (wrapper'.add_context.some /\ wrapper'.kind = wrapper.kind)]_vars

C13_Witness ==
    /\ wrapper.kind = TYPE_PackageDistributionResource
    /\ HasContext
    /\ last.op = "python_resource_to_value" /\ last.result.ok
    /\ last.policy.id = "filesystem"
    /\ wrapper.add_context.context.location = RelativePath(<<>>)

\* C14: apply_packaging_policy sets the wrapper's context to the one
\* derived from its record and the policy, whether or not it had one and
\* whatever was written before, and leaves the record as it was; a later
\* set_attr does not apply the policy again: the field holds what was
\* written.
C14_ApplyPolicyReplaces ==
    /\ [][last'.op = "apply_packaging_policy"
          => (/\ wrapper'.add_context =
                    SomeContext(DeriveCollectionAddContext(AsPythonResource(wrapper),
                                                           last'.policy))
              /\ wrapper'.inner = wrapper.inner
              /\ wrapper'.kind = wrapper.kind)]_vars
    /\ [][(/\ wrapper.add_context.some
           /\ last'.op = "set_attr" /\ last'.result.ok
           /\ last'.attribute \in BoolAttrs)
          => wrapper'.add_context.context[FieldOf(last'.attribute)] =
                ToBool(last'.value)]_vars

C14_Witness ==
    /\ IsSourceModule /\ HasContext
    /\ last.op = "apply_packaging_policy"
    /\ last.policy.id = "filesystem"
    /\ wrapper.add_context.context.location = RelativePath(<<>>)
    /\ wrapper.add_context.context.location_fallback = InMemory
    /\ wrapper.add_context.context.optimize_level_one
    /\ ~wrapper.add_context.context.store_source

====
